---------------------------- MODULE Spec2Model ----------------------------
(***************************************************************************)
(* A model of generate_cv_pdf.py: the text helpers (pdf_escape,            *)
(* wrap_text), the StyledPdf page builder, load_cv_lines, the layout loop  *)
(* of generate() and the byte-level PDF writer StyledPdf.write_pdf.        *)
(*                                                                         *)
(* Representation of Python values                                         *)
(*  - a str handled by the layout code is kept run-length encoded: a       *)
(*    sequence of runs [c |-> character, n |-> repetitions] in which       *)
(*    neighbouring runs hold different characters ("aab" is                *)
(*    <<[c |-> "a", n |-> 2], [c |-> "b", n |-> 1]>>).  Expand gives the   *)
(*    plain sequence of characters, S builds the encoding from it.         *)
(*  - the only whitespace character of the model's alphabet is the space.  *)
(*  - a float that the code prints with :.2f is kept as an integer number  *)
(*    of hundredths, a colour component (:.3f) as thousandths.             *)
(*  - at byte level (write_pdf) a str is a sequence of code points and a   *)
(*    bytes object a sequence of integers 0..255.                          *)
(***************************************************************************)
EXTENDS Integers, Sequences, FiniteSets, TLC

VARIABLES
    pc,         \* position of the running call
    pdf,        \* the StyledPdf object: page_streams, current_stream, page_no
    name,       \* generate(): name returned by load_cv_lines
    subtitle,   \* generate(): subtitle returned by load_cv_lines
    lines,      \* generate(): body lines consumed so far by the layout loop
    more,       \* generate(): the input file may hold further body lines
    y,          \* generate(): the vertical cursor
    steps,      \* history: the render steps of the body line handled last
    reported,   \* generate(): the page count printed at the end (0 before)
    file,       \* write_pdf(): the bytes written to the output path
    call,       \* arguments of the helper function under call
    ret         \* its return value

vars == <<pc, pdf, name, subtitle, lines, more, y, steps, reported, file, call, ret>>

Max(a, b) == IF a >= b THEN a ELSE b

(***************************************************************************)
(* Bounds of the model.                                                    *)
(***************************************************************************)
MaxLines == 4       \* body lines read by one run of generate()
MaxPieces == 5      \* pieces concatenated into a text given to wrap_text
MaxEscLen == 4      \* characters of a string given to pdf_escape
MaxFileLines == 4   \* lines of a file given to load_cv_lines
MaxPages == 3       \* finalized pages given to write_pdf

(***************************************************************************)
(* Loops.  A loop over a list is evaluated by halving the index range: the *)
(* first half is run to its end, then the second half is started from its  *)
(* result, so the body still sees the elements one by one and in order.    *)
(* Where the result of the first half is tested before the second half is  *)
(* started (Len(done) >= 0, ...), the test always holds: it only makes TLC *)
(* finish the first half first.                                            *)
(***************************************************************************)
Mid(lo, hi) == (lo + hi) \div 2

(***************************************************************************)
(* Run-length encoded strings.                                             *)
(***************************************************************************)
Run(c, n) == [c |-> c, n |-> n]

\* s + t for two encoded strings
Cat(s, t) ==
    IF s = <<>> THEN t
    ELSE IF t = <<>> THEN s
    ELSE IF s[Len(s)].c = t[1].c
         THEN SubSeq(s, 1, Len(s) - 1)
              \o <<Run(t[1].c, s[Len(s)].n + t[1].n)>>
              \o Tail(t)
         ELSE s \o t

RECURSIVE SRange(_, _, _)
SRange(chars, lo, hi) ==
    IF lo > hi THEN <<>>
    ELSE IF lo = hi THEN <<Run(chars[lo], 1)>>
    ELSE Cat(SRange(chars, lo, Mid(lo, hi)), SRange(chars, Mid(lo, hi) + 1, hi))

\* the encoding of a sequence of characters
S(chars) == SRange(chars, 1, Len(chars))

RECURSIVE Repeat(_, _)
\* s * n
Repeat(s, n) ==
    IF n = 0 THEN <<>>
    ELSE IF n = 1 THEN s
    ELSE Cat(Repeat(s, n \div 2), Repeat(s, n - (n \div 2)))

RECURSIVE ExpandRange(_, _, _)
ExpandRange(s, lo, hi) ==
    IF lo > hi THEN <<>>
    ELSE IF lo = hi THEN [i \in 1..s[lo].n |-> s[lo].c]
    ELSE ExpandRange(s, lo, Mid(lo, hi)) \o ExpandRange(s, Mid(lo, hi) + 1, hi)

\* the characters of an encoded string, one by one
Expand(s) == ExpandRange(s, 1, Len(s))

RECURSIVE StrLenRange(_, _, _)
StrLenRange(s, lo, hi) ==
    IF lo > hi THEN 0
    ELSE IF lo = hi THEN s[lo].n
    ELSE StrLenRange(s, lo, Mid(lo, hi)) + StrLenRange(s, Mid(lo, hi) + 1, hi)

\* len(s)
StrLen(s) == StrLenRange(s, 1, Len(s))

RECURSIVE CatRange(_, _, _)
CatRange(parts, lo, hi) ==
    IF lo > hi THEN <<>>
    ELSE IF lo = hi THEN parts[lo]
    ELSE Cat(CatRange(parts, lo, Mid(lo, hi)), CatRange(parts, Mid(lo, hi) + 1, hi))

\* "".join(parts)
CatAll(parts) == CatRange(parts, 1, Len(parts))

IsSpace(c) == c = " "

\* s.rstrip()
RStrip(s) ==
    IF s # <<>> /\ IsSpace(s[Len(s)].c) THEN SubSeq(s, 1, Len(s) - 1) ELSE s

\* s.lstrip()
LStrip(s) == IF s # <<>> /\ IsSpace(s[1].c) THEN Tail(s) ELSE s

\* s.strip()
Strip(s) == LStrip(RStrip(s))

RECURSIVE Drop(_, _)
\* s[k:]
Drop(s, k) ==
    IF k = 0 \/ s = <<>> THEN s
    ELSE IF s[1].n > k THEN <<Run(s[1].c, s[1].n - k)>> \o Tail(s)
    ELSE Drop(Tail(s), k - s[1].n)

\* s.startswith("-")
StartsWithDash(s) == s # <<>> /\ s[1].c = "-"

\* s.startswith("- ")
StartsWithDashSpace(s) ==
    /\ Len(s) >= 2
    /\ s[1] = Run("-", 1)
    /\ s[2].c = " "

UpperChar(c) ==
    CASE c = "a" -> "A" [] c = "b" -> "B" [] c = "c" -> "C" [] c = "d" -> "D"
      [] c = "e" -> "E" [] c = "f" -> "F" [] c = "g" -> "G" [] c = "h" -> "H"
      [] c = "i" -> "I" [] c = "j" -> "J" [] c = "k" -> "K" [] c = "l" -> "L"
      [] c = "m" -> "M" [] c = "n" -> "N" [] c = "o" -> "O" [] c = "p" -> "P"
      [] c = "q" -> "Q" [] c = "r" -> "R" [] c = "s" -> "S" [] c = "t" -> "T"
      [] c = "u" -> "U" [] c = "v" -> "V" [] c = "w" -> "W" [] c = "x" -> "X"
      [] c = "y" -> "Y" [] c = "z" -> "Z" [] OTHER -> c

RECURSIVE UpperRange(_, _, _)
UpperRange(s, lo, hi) ==
    IF lo > hi THEN <<>>
    ELSE IF lo = hi THEN <<Run(UpperChar(s[lo].c), s[lo].n)>>
    ELSE Cat(UpperRange(s, lo, Mid(lo, hi)), UpperRange(s, Mid(lo, hi) + 1, hi))

\* s.upper()
Upper(s) == UpperRange(s, 1, Len(s))

RECURSIVE DecChars(_)
\* str(n) for n >= 0, as characters
DecChars(n) ==
    LET d == <<"0", "1", "2", "3", "4", "5", "6", "7", "8", "9">>[(n % 10) + 1]
    IN  IF n < 10 THEN <<d>> ELSE Append(DecChars(n \div 10), d)

(***************************************************************************)
(* pdf_escape                                                              *)
(***************************************************************************)
RECURSIVE ReplaceRange(_, _, _, _, _)
ReplaceRange(s, old, new, lo, hi) ==
    IF lo > hi THEN <<>>
    ELSE IF lo = hi
         THEN (IF s[lo].c = old THEN Repeat(new, s[lo].n) ELSE <<s[lo]>>)
    ELSE Cat(ReplaceRange(s, old, new, lo, Mid(lo, hi)),
             ReplaceRange(s, old, new, Mid(lo, hi) + 1, hi))

\* s.replace(old, new) for a one-character old
Replace(s, old, new) == ReplaceRange(s, old, new, 1, Len(s))

\* a mutant: the parentheses are escaped before the backslashes
pdf_escape_parens_first(text) ==
    Replace(Replace(Replace(text, "(", S(<<"\\", "(">>)),
                    ")", S(<<"\\", ")">>)),
            "\\", S(<<"\\", "\\">>))

pdf_escape(text) ==
    Replace(Replace(Replace(text, "\\", S(<<"\\", "\\">>)),
                    "(", S(<<"\\", "(">>)),
            ")", S(<<"\\", ")">>))

(***************************************************************************)
(* wrap_text, with textwrap.wrap(text, width, break_long_words=False,      *)
(* break_on_hyphens=False) of the standard library.  A chunk is a string.  *)
(***************************************************************************)
\* chunk.strip() == ''
IsBlankChunk(chunk) == \A i \in 1..Len(chunk) : IsSpace(chunk[i].c)

\* the chunks of s followed by the chunks of t, where the last chunk of s
\* and the first chunk of t are one chunk when both are words
JoinChunks(a, b) ==
    IF a = <<>> THEN b
    ELSE IF b = <<>> THEN a
    ELSE IF ~IsBlankChunk(a[Len(a)]) /\ ~IsBlankChunk(b[1])
         THEN SubSeq(a, 1, Len(a) - 1) \o <<a[Len(a)] \o b[1]>> \o Tail(b)
         ELSE a \o b

RECURSIVE ChunkRange(_, _, _)
ChunkRange(text, lo, hi) ==
    IF lo > hi THEN <<>>
    ELSE IF lo = hi THEN <<<<text[lo]>>>>
    ELSE JoinChunks(ChunkRange(text, lo, Mid(lo, hi)),
                    ChunkRange(text, Mid(lo, hi) + 1, hi))

\* TextWrapper._split: the text cut into maximal runs of whitespace and of
\* non-whitespace characters, in order
SplitChunks(text) == ChunkRange(text, 1, Len(text))

RECURSIVE FitCount_loose(_, _, _)
\* a mutant: a line may run one character over the width
FitCount_loose(chunks, cur_len, width) ==
    IF chunks # <<>> /\ cur_len + StrLen(chunks[1]) <= width + 1
    THEN 1 + FitCount_loose(Tail(chunks), cur_len + StrLen(chunks[1]), width)
    ELSE 0

RECURSIVE FitCount(_, _, _)
\* TextWrapper._wrap_chunks, inner loop: how many leading chunks go on the
\* current line (while cur_len + len(chunk) <= width)
FitCount(chunks, cur_len, width) ==
    IF chunks # <<>> /\ cur_len + StrLen(chunks[1]) <= width
    THEN 1 + FitCount(Tail(chunks), cur_len + StrLen(chunks[1]), width)
    ELSE 0

\* TextWrapper._wrap_chunks with drop_whitespace and without
\* break_long_words: one round of the outer loop builds one line.
\* st.chunks are the chunks not yet placed, st.out the lines built.
WrapOneLine(st, width) ==
    IF st.chunks = <<>> THEN st
    ELSE LET \* whitespace at the start of a line other than the first is dropped
             c0 == IF IsBlankChunk(st.chunks[1]) /\ st.out # <<>>
                   THEN Tail(st.chunks) ELSE st.chunks
             k == FitCount(c0, 0, width)
             fill == SubSeq(c0, 1, k)
             rest == SubSeq(c0, k + 1, Len(c0))
             \* _handle_long_word: a chunk wider than the line is put on a
             \* line of its own, and only when the line is still empty
             long == rest # <<>> /\ StrLen(rest[1]) > width /\ fill = <<>>
             cur1 == IF long THEN <<rest[1]>> ELSE fill
             rest1 == IF long THEN Tail(rest) ELSE rest
             \* whitespace at the end of the line is dropped
             cur2 == IF cur1 # <<>> /\ IsBlankChunk(cur1[Len(cur1)])
                     THEN SubSeq(cur1, 1, Len(cur1) - 1) ELSE cur1
         IN  [chunks |-> rest1,
              out |-> IF cur2 # <<>> THEN Append(st.out, CatAll(cur2))
                      ELSE st.out]

RECURSIVE WrapLoop(_, _, _)
\* the outer loop (while chunks), run for 2^k rounds or until no chunk is left
WrapLoop(st, width, k) ==
    IF k = 0 THEN WrapOneLine(st, width)
    ELSE LET half == WrapLoop(st, width, k - 1)
         IN  IF half.chunks = <<>> THEN half ELSE WrapLoop(half, width, k - 1)

RECURSIVE Log2Up(_)
\* the least k with 2^k >= n
Log2Up(n) == IF n <= 1 THEN 0 ELSE 1 + Log2Up((n + 1) \div 2)

\* textwrap.wrap(text, width=..., break_long_words=False, break_on_hyphens=False):
\* every round places or drops at least one chunk
TextWrap(text, width) ==
    LET chunks == SplitChunks(text)
    IN  WrapLoop([chunks |-> chunks, out |-> <<>>], width, Log2Up(Len(chunks))).out

\* width and font_size in hundredths; char_factor 0.56 / 0.53 in hundredths
wrap_text(text, width, font_size, bold) ==
    IF text = <<>> THEN <<<<>>>>
    ELSE LET char_factor == IF bold THEN 56 ELSE 53
             max_chars == Max(12, (width * 100) \div (font_size * char_factor))
             wrapped == TextWrap(text, max_chars)
         IN  IF wrapped = <<>> THEN <<text>> ELSE wrapped

(***************************************************************************)
(* load_cv_lines, from the list path.read_text(...).splitlines() on.       *)
(***************************************************************************)
DefaultName == S(<<"I", "r", "o", " ", "K", "a", "r", "a", "v", "a", "s", "i", "l", "i">>)

DefaultSubtitle ==
    S(<<"A", "t", "l", "a", "s", "s", "i", "a", "n", " ", "E", "n", "g", "i",
        "n", "e", "e", "r", " ", "-", " ", "S", "e", "r", "v", "i", "c", "e",
        " ", "D", "e", "l", "i", "v", "e", "r", "y", " ", "-", " ", "P", "r",
        "o", "c", "e", "s", "s", " ", "D", "e", "s", "i", "g", "n">>)

RECURSIVE NonEmpty(_)
\* [ln.strip() for ln in lines if ln.strip()]
NonEmpty(ls) ==
    IF ls = <<>> THEN <<>>
    ELSE (IF Strip(ls[1]) # <<>> THEN <<Strip(ls[1])>> ELSE <<>>)
         \o NonEmpty(Tail(ls))

RECURSIVE Remaining_keep_ws(_, _)
\* a mutant: the kept lines are not right-stripped
Remaining_keep_ws(ls, skipped) ==
    IF ls = <<>> THEN <<>>
    ELSE LET ln == ls[1]
             skipped1 == IF Strip(ln) # <<>> THEN skipped + 1 ELSE skipped
         IN  IF Strip(ln) # <<>> /\ skipped1 <= 2
             THEN Remaining_keep_ws(Tail(ls), skipped1)
             ELSE <<ln>> \o Remaining_keep_ws(Tail(ls), skipped1)

RECURSIVE Remaining(_, _)
\* the loop that skips the first two non-empty lines
Remaining(ls, skipped) ==
    IF ls = <<>> THEN <<>>
    ELSE LET ln == ls[1]
             skipped1 == IF Strip(ln) # <<>> THEN skipped + 1 ELSE skipped
         IN  IF Strip(ln) # <<>> /\ skipped1 <= 2
             THEN Remaining(Tail(ls), skipped1)
             ELSE <<RStrip(ln)>> \o Remaining(Tail(ls), skipped1)

load_cv_lines(ls) ==
    LET non_empty == NonEmpty(ls)
    IN  [name |-> IF non_empty # <<>> THEN non_empty[1] ELSE DefaultName,
         subtitle |-> IF Len(non_empty) > 1 THEN non_empty[2] ELSE DefaultSubtitle,
         remaining |-> Remaining(ls, 0)]

(***************************************************************************)
(* Page geometry and theme.                                                *)
(***************************************************************************)
PAGE_WIDTH == 595
PAGE_HEIGHT == 842
MARGIN_X == 36
CONTENT_WIDTH == PAGE_WIDTH - 2 * MARGIN_X

\* a number of points, in hundredths
Pt(v) == v * 100

\* colours in thousandths
Theme ==
    [bg |-> <<30, 60, 140>>,
     panel |-> <<70, 130, 280>>,
     panel_alt |-> <<60, 110, 240>>,
     border |-> <<220, 330, 500>>,
     text |-> <<900, 950, 990>>,
     muted |-> <<770, 840, 910>>,
     accent |-> <<910, 760, 500>>,
     accent_alt |-> <<560, 440, 740>>]

\* Python's None, for an optional colour
None == <<>>

(***************************************************************************)
(* StyledPdf: the drawing methods.  p is the object; each method returns   *)
(* the object after the call.  A line of the content stream is kept as a   *)
(* record: its operator and its operands as the code formats them.         *)
(***************************************************************************)
NewStyledPdf == [page_streams |-> <<>>, current_stream |-> <<>>, page_no |-> 0]

cmd(p, line) == [p EXCEPT !.current_stream = Append(@, line)]

color_fill(p, rgb) == cmd(p, [op |-> "rg", rgb |-> rgb])

color_stroke(p, rgb) == cmd(p, [op |-> "RG", rgb |-> rgb])

\* self.cmd(line) for each line of ls, in order
cmds(p, ls) == [p EXCEPT !.current_stream = @ \o ls]

rect(p, x, y_, w, h, fill, stroke, line_width) ==
    cmds(p,
         (IF fill # None THEN <<[op |-> "rg", rgb |-> fill]>> ELSE <<>>)
         \o (IF stroke # None
             THEN <<[op |-> "RG", rgb |-> stroke], [op |-> "w", width |-> line_width]>>
             ELSE <<>>)
         \o <<[op |-> "re", x |-> x, y |-> y_, w |-> w, h |-> h]>>
         \o (IF fill # None /\ stroke # None THEN <<[op |-> "B"]>>
             ELSE IF fill # None THEN <<[op |-> "f"]>>
             ELSE <<[op |-> "S"]>>))

text(p, x, y_, value, size, font, color) ==
    cmds(p,
         (IF color # None THEN <<[op |-> "rg", rgb |-> color]>> ELSE <<>>)
         \o <<[op |-> "BT"],
              [op |-> "Tf", font |-> font, size |-> size],
              [op |-> "Tm", x |-> x, y |-> y_],
              [op |-> "Tj", string |-> pdf_escape(value)],
              [op |-> "ET"]>>)

\* kappa = 0.5522847498, as 55228 hundred-thousandths plus 47498 of 10^-10
KappaHigh == 55228
KappaLow == 47498

\* the path of a circle: a move and four Bezier segments, every number as
\* :.2f prints it (c = radius * kappa rounded to hundredths)
circle_path(cx, cy, radius) ==
    LET c == (radius * KappaHigh + ((radius * KappaLow) \div 100000) + 50000)
             \div 100000
    IN  << [op |-> "m", at |-> <<cx + radius, cy>>],
           [op |-> "c", at |-> <<cx + radius, cy + c, cx + c, cy + radius,
                                 cx, cy + radius>>],
           [op |-> "c", at |-> <<cx - c, cy + radius, cx - radius, cy + c,
                                 cx - radius, cy>>],
           [op |-> "c", at |-> <<cx - radius, cy - c, cx - c, cy - radius,
                                 cx, cy - radius>>],
           [op |-> "c", at |-> <<cx + c, cy - radius, cx + radius, cy - c,
                                 cx + radius, cy>>] >>

\* cmd(circle_path(...) + "f") and cmd(circle_path(...) + "S")
circle(p, cx, cy, radius, paint) ==
    cmd(p, [op |-> "path", path |-> circle_path(cx, cy, radius), paint |-> paint])

\* one round of the star loop
StarDot(p, i) ==
    LET x == 20 + ((i * 23) % (PAGE_WIDTH - 40))
        y_ == 90 + ((i * 67) % (PAGE_HEIGHT - 140))
        size == IF i % 3 # 0 THEN 120 ELSE 180
    IN  rect(p, Pt(x), Pt(y_), size, size, <<820, 920, 1000>>, None, 100)

RECURSIVE StarDots(_, _, _)
\* for i in range(lo, hi + 1)
StarDots(p, lo, hi) ==
    IF lo > hi THEN p
    ELSE IF lo = hi THEN StarDot(p, lo)
    ELSE LET done == StarDots(p, lo, Mid(lo, hi))
         IN  IF done.page_no >= 0 THEN StarDots(done, Mid(lo, hi) + 1, hi)
             ELSE done

draw_decor(p) ==
    LET p1 == rect(p, 0, 0, Pt(PAGE_WIDTH), Pt(PAGE_HEIGHT), Theme.bg, None, 100)
        p2 == color_fill(p1, <<80, 180, 300>>)
        p3 == circle(p2, Pt(40), Pt(PAGE_HEIGHT - 40), Pt(170), "f")
        p4 == color_fill(p3, <<120, 100, 240>>)
        p5 == circle(p4, Pt(PAGE_WIDTH - 60), Pt(120), Pt(200), "f")
        p6 == color_stroke(p5, Theme.border)
        p7 == cmd(p6, [op |-> "w", width |-> 125])
        p8 == circle(p7, Pt(PAGE_WIDTH - 78), Pt(PAGE_HEIGHT - 66), Pt(24), "S")
        p9 == circle(p8, Pt(PAGE_WIDTH - 78), Pt(PAGE_HEIGHT - 66), Pt(40), "S")
        p10 == color_fill(p9, <<820, 920, 1000>>)
    \* (the test only makes p10 a value before the loop starts)
    IN  IF p10.page_no >= 0 THEN StarDots(p10, 0, 23) ELSE p10

PageLabel(n) == Cat(S(<<"P", "a", "g", "e", " ">>), S(DecChars(n)))

\* a mutant: the label is drawn on the first page too
begin_page_label_always(p, name_, subtitle_, first_page) ==
    LET p1 == [p EXCEPT !.page_no = @ + 1, !.current_stream = <<>>]
        p2 == draw_decor(p1)
        header_h == IF first_page THEN 86 ELSE 56
        header_y == PAGE_HEIGHT - 36 - header_h
        p3 == rect(p2, Pt(MARGIN_X), Pt(header_y), Pt(CONTENT_WIDTH), Pt(header_h),
                   Theme.panel, Theme.border, 110)
        p4 == text(p3, Pt(MARGIN_X + 16), Pt(header_y + header_h - 32), name_,
                   IF first_page THEN 2400 ELSE 1800, "F2", Theme.accent)
        p5 == text(p4, Pt(MARGIN_X + 16), Pt(header_y + header_h - 52), subtitle_,
                   1100, "F1", Theme.text)
    IN  text(p5, Pt(PAGE_WIDTH - 102), Pt(header_y + 12), PageLabel(p1.page_no),
             950, "F1", Theme.muted)

\* a mutant: the label is formatted before the counter is incremented
begin_page_stale_label(p, name_, subtitle_, first_page) ==
    LET p1 == [p EXCEPT !.page_no = @ + 1, !.current_stream = <<>>]
        p2 == draw_decor(p1)
        header_h == IF first_page THEN 86 ELSE 56
        header_y == PAGE_HEIGHT - 36 - header_h
        p3 == rect(p2, Pt(MARGIN_X), Pt(header_y), Pt(CONTENT_WIDTH), Pt(header_h),
                   Theme.panel, Theme.border, 110)
        p4 == text(p3, Pt(MARGIN_X + 16), Pt(header_y + header_h - 32), name_,
                   IF first_page THEN 2400 ELSE 1800, "F2", Theme.accent)
        p5 == text(p4, Pt(MARGIN_X + 16), Pt(header_y + header_h - 52), subtitle_,
                   1100, "F1", Theme.text)
    IN  IF ~first_page
        THEN text(p5, Pt(PAGE_WIDTH - 102), Pt(header_y + 12), PageLabel(p.page_no),
                  950, "F1", Theme.muted)
        ELSE p5

begin_page(p, name_, subtitle_, first_page) ==
    LET p1 == [p EXCEPT !.page_no = @ + 1, !.current_stream = <<>>]
        p2 == draw_decor(p1)
        header_h == IF first_page THEN 86 ELSE 56
        header_y == PAGE_HEIGHT - 36 - header_h
        p3 == rect(p2, Pt(MARGIN_X), Pt(header_y), Pt(CONTENT_WIDTH), Pt(header_h),
                   Theme.panel, Theme.border, 110)
        p4 == text(p3, Pt(MARGIN_X + 16), Pt(header_y + header_h - 32), name_,
                   IF first_page THEN 2400 ELSE 1800, "F2", Theme.accent)
        p5 == text(p4, Pt(MARGIN_X + 16), Pt(header_y + header_h - 52), subtitle_,
                   1100, "F1", Theme.text)
    IN  IF ~first_page
        THEN text(p5, Pt(PAGE_WIDTH - 102), Pt(header_y + 12), PageLabel(p1.page_no),
                  950, "F1", Theme.muted)
        ELSE p5

\* "".join(self.current_stream) is the same sequence of lines
finish_page(p) ==
    [p EXCEPT !.page_streams = Append(@, p.current_stream),
              !.current_stream = <<>>]

(***************************************************************************)
(* generate(): the fixed content of the first page.                        *)
(***************************************************************************)
contact_line ==
    S(<<"E", "m", "a", "i", "l", ":", " ", "i", "r", "o", "-", "k",
        "@", "o", "u", "t", "l", "o", "o", "k", ".", "c", "o", "m",
        " ", " ", "|", " ", " ", "L", "i", "n", "k", "e", "d", "I",
        "n", ":", " ", "l", "i", "n", "k", "e", "d", "i", "n", ".",
        "c", "o", "m", "/", "i", "n", "/", "i", "r", "o", "-", "k",
        "a", "r", "a", "v", "a", "s", "i", "l", "i", "-", "3", "7",
        "3", "7", "9", "a", "b", "8", " ", " ", "|", " ", " ", "L",
        "o", "c", "a", "t", "i", "o", "n", ":", " ", "G", "r", "e",
        "e", "c", "e">>)

metrics ==
    << [value |-> S(<<"7", "+">>),
        label |-> S(<<"Y", "e", "a", "r", "s", " ", "i", "n", " ", "A", "t", "l",
                  "a", "s", "s", "i", "a", "n", " ", "e", "n", "v", "i", "r",
                  "o", "n", "m", "e", "n", "t", "s">>)],
       [value |-> S(<<"5">>),
        label |-> S(<<"E", "n", "t", "e", "r", "p", "r", "i", "s", "e", " ", "e",
                  "n", "v", "i", "r", "o", "n", "m", "e", "n", "t", "s", " ",
                  "s", "u", "p", "p", "o", "r", "t", "e", "d">>)],
       [value |-> S(<<"1", "0", "+">>),
        label |-> S(<<"A", "t", "l", "a", "s", "s", "i", "a", "n", " ", "M", "a",
                  "r", "k", "e", "t", "p", "l", "a", "c", "e", " ", "a", "p",
                  "p", "s">>)],
       [value |-> S(<<"C", "l", "o", "u", "d", " ", "&", " ", "D", "C">>),
        label |-> S(<<"P", "l", "a", "t", "f", "o", "r", "m", " ", "e", "x", "p",
                  "e", "r", "t", "i", "s", "e">>)] >>

headings ==
    { S(<<"C", "o", "n", "t", "a", "c", "t">>),
      S(<<"L", "a", "n", "g", "u", "a", "g", "e", "s">>),
      S(<<"P", "r", "o", "f", "e", "s", "s", "i", "o", "n", "a", "l",
          " ", "S", "u", "m", "m", "a", "r", "y">>),
      S(<<"C", "u", "r", "r", "e", "n", "t", " ", "F", "o", "c", "u",
          "s">>),
      S(<<"C", "o", "r", "e", " ", "S", "t", "r", "e", "n", "g", "t",
          "h", "s">>),
      S(<<"T", "o", "o", "l", "s", " ", "a", "n", "d", " ", "P", "l",
          "a", "t", "f", "o", "r", "m", "s">>),
      S(<<"A", "t", "l", "a", "s", "s", "i", "a", "n", " ", "E", "c",
          "o", "s", "y", "s", "t", "e", "m">>),
      S(<<"D", "e", "l", "i", "v", "e", "r", "y", " ", "a", "n", "d",
          " ", "O", "p", "e", "r", "a", "t", "i", "o", "n", "s">>),
      S(<<"P", "r", "o", "c", "e", "s", "s", " ", "a", "n", "d", " ",
          "G", "o", "v", "e", "r", "n", "a", "n", "c", "e">>),
      S(<<"E", "x", "p", "e", "r", "i", "e", "n", "c", "e">>),
      S(<<"E", "d", "u", "c", "a", "t", "i", "o", "n">>),
      S(<<"C", "e", "r", "t", "i", "f", "i", "c", "a", "t", "i", "o",
          "n", "s">>),
      S(<<"I", "n", "t", "e", "r", "e", "s", "t", "s">>) }

x_text == MARGIN_X + 12
bottom_limit == 56
container_y == PAGE_HEIGHT - 216
gap == 8

\* (CONTENT_WIDTH - gap * 5) / 4, in hundredths
card_w == (Pt(CONTENT_WIDTH) - Pt(gap) * 5) \div 4

\* one round of the loop over the metrics, idx from 0
MetricCard(p, idx) ==
    LET x == Pt(MARGIN_X) + Pt(gap) + idx * (card_w + Pt(gap))
        y_ == Pt(container_y + 12)
        p1 == rect(p, x, y_, card_w, Pt(64), <<80, 140, 300>>, Theme.border, 80)
        p2 == text(p1, x + Pt(8), y_ + Pt(38), metrics[idx + 1].value,
                   IF idx < 3 THEN 1600 ELSE 1350, "F2", Theme.accent)
        wrapped == wrap_text(metrics[idx + 1].label, card_w - Pt(14), 880, FALSE)
        text_y == y_ + Pt(18)
        \* for line in wrapped[:2]
        p3 == IF Len(wrapped) >= 1
              THEN text(p2, x + Pt(8), text_y, wrapped[1], 880, "F1", Theme.muted)
              ELSE p2
    IN  IF Len(wrapped) >= 2
        THEN text(p3, x + Pt(8), text_y - Pt(10), wrapped[2], 880, "F1", Theme.muted)
        ELSE p3

RECURSIVE MetricCards(_, _, _)
\* for idx, (value, label) in enumerate(metrics), over idx in lo..hi
MetricCards(p, lo, hi) ==
    IF lo > hi THEN p
    ELSE IF lo = hi THEN MetricCard(p, lo)
    ELSE LET done == MetricCards(p, lo, Mid(lo, hi))
         IN  IF done.page_no >= 0 THEN MetricCards(done, Mid(lo, hi) + 1, hi)
             ELSE done

\* lines 241-267: the first page is begun, the contact line and the metrics
\* row are drawn
FirstPage(name_, subtitle_) ==
    LET p1 == begin_page(NewStyledPdf, name_, subtitle_, TRUE)
        p2 == text(p1, Pt(MARGIN_X + 16), Pt(PAGE_HEIGHT - 118), contact_line,
                   920, "F1", Theme.muted)
        p3 == rect(p2, Pt(MARGIN_X), Pt(container_y), Pt(CONTENT_WIDTH), Pt(88),
                   Theme.panel_alt, Theme.border, 100)
    \* (the test only makes p3 a value before the loop starts)
    IN  IF p3.page_no >= 0 THEN MetricCards(p3, 0, Len(metrics) - 1) ELSE p3

\* new_page(), a closure over pdf, name and subtitle: the page is finished,
\* the next one begun; y is the value returned
new_page(p) ==
    [pdf |-> begin_page(finish_page(p), name, subtitle, FALSE),
     y |-> PAGE_HEIGHT - 112]

(***************************************************************************)
(* generate(): the loop over the body lines.  st holds what a round of the *)
(* loop reads and writes: the object pdf, the cursor y and steps, the log  *)
(* of what the round did (the cursor and the page counter before and       *)
(* after, and the cursor the text was drawn at).                           *)
(***************************************************************************)
Logged(st, kind, p, at, after) ==
    [pdf |-> p, y |-> after,
     steps |-> Append(st.steps,
                      [kind |-> kind, before |-> st.y, at |-> at, after |-> after,
                       pages_before |-> st.pdf.page_no, pages_after |-> p.page_no])]

\* if not line
BlankLine(st) ==
    LET y1 == st.y - 7
        np == new_page(st.pdf)
    IN  IF y1 < bottom_limit
        THEN Logged(st, "blank", np.pdf, y1, np.y)
        ELSE Logged(st, "blank", st.pdf, y1, y1)

\* a mutant: the heading breaks the page as late as a wrapped line does
HeadingLine_late_break(st, line) ==
    LET y1 == st.y - 6
        broke == y1 < bottom_limit + 10
        np == new_page(st.pdf)
        p1 == IF broke THEN np.pdf ELSE st.pdf
        y2 == IF broke THEN np.y ELSE y1
    IN  Logged(st, "heading",
               text(p1, Pt(x_text), Pt(y2), Upper(line), 1100, "F2", Theme.accent),
               y2, y2 - 14)

\* if is_heading
HeadingLine(st, line) ==
    LET y1 == st.y - 6
        broke == y1 < bottom_limit + 16
        np == new_page(st.pdf)
        p1 == IF broke THEN np.pdf ELSE st.pdf
        y2 == IF broke THEN np.y ELSE y1
    IN  Logged(st, "heading",
               text(p1, Pt(x_text), Pt(y2), Upper(line), 1100, "F2", Theme.accent),
               y2, y2 - 14)

\* one round of the loop over the wrapped lines of a bullet, i from 0
BulletPart(st, i, part) ==
    LET broke == st.y < bottom_limit + 10
        np == new_page(st.pdf)
        p1 == IF broke THEN np.pdf ELSE st.pdf
        y1 == IF broke THEN np.y ELSE st.y
        prefix == IF i = 0 THEN S(<<"-", " ">>) ELSE S(<<" ", " ">>)
    IN  Logged(st, "bullet",
               text(p1, Pt(x_text + 8), Pt(y1), Cat(prefix, part), 960, "F1",
                    Theme.text),
               y1, y1 - 12)

RECURSIVE BulletParts(_, _, _, _)
\* for i, part in enumerate(wrapped), over wrapped[lo..hi]
BulletParts(st, wrapped, lo, hi) ==
    IF lo > hi THEN st
    ELSE IF lo = hi THEN BulletPart(st, lo - 1, wrapped[lo])
    ELSE LET done == BulletParts(st, wrapped, lo, Mid(lo, hi))
         IN  IF Len(done.steps) >= 0
             THEN BulletParts(done, wrapped, Mid(lo, hi) + 1, hi)
             ELSE done

\* if is_bullet
BulletLine(st, line) ==
    LET item == Strip(Drop(line, 2))
        wrapped == wrap_text(item, Pt(CONTENT_WIDTH - 38), 960, FALSE)
    IN  BulletParts(st, wrapped, 1, Len(wrapped))

\* a mutant: a wrapped line breaks the page only below the bottom limit
PlainPart_late_break(st, part) ==
    LET broke == st.y < bottom_limit
        np == new_page(st.pdf)
        p1 == IF broke THEN np.pdf ELSE st.pdf
        y1 == IF broke THEN np.y ELSE st.y
    IN  Logged(st, "plain",
               text(p1, Pt(x_text), Pt(y1), part, 980, "F1", Theme.text),
               y1, y1 - 12)

\* one round of the loop over the wrapped lines of a plain line
PlainPart(st, part) ==
    LET broke == st.y < bottom_limit + 10
        np == new_page(st.pdf)
        p1 == IF broke THEN np.pdf ELSE st.pdf
        y1 == IF broke THEN np.y ELSE st.y
    IN  Logged(st, "plain",
               text(p1, Pt(x_text), Pt(y1), part, 980, "F1", Theme.text),
               y1, y1 - 12)

RECURSIVE PlainParts(_, _, _, _)
\* for part in wrapped, over wrapped[lo..hi]
PlainParts(st, wrapped, lo, hi) ==
    IF lo > hi THEN st
    ELSE IF lo = hi THEN PlainPart(st, wrapped[lo])
    ELSE LET done == PlainParts(st, wrapped, lo, Mid(lo, hi))
         IN  IF Len(done.steps) >= 0
             THEN PlainParts(done, wrapped, Mid(lo, hi) + 1, hi)
             ELSE done

\* the plain line
PlainLine(st, line) ==
    LET wrapped == wrap_text(line, Pt(CONTENT_WIDTH - 24), 980, FALSE)
    IN  PlainParts(st, wrapped, 1, Len(wrapped))

(***************************************************************************)
(* The values of the variables a specification does not use.               *)
(***************************************************************************)
NoCall == [fn |-> "none"]

IdleGenerate ==
    /\ pdf = NewStyledPdf
    /\ name = <<>>
    /\ subtitle = <<>>
    /\ lines = <<>>
    /\ more = FALSE
    /\ y = 0
    /\ steps = <<>>
    /\ reported = 0
    /\ file = <<>>

generateVars == <<pdf, name, subtitle, lines, more, y, steps, reported, file>>

(***************************************************************************)
(* SpecWrap: wrap_text applied to bounded texts.  A text is a              *)
(* concatenation of at most MaxPieces pieces: words of 1, 6 and 13         *)
(* characters, a space and a run of 13 spaces.  The parameters are those   *)
(* of the metric-card call of generate() (22 characters per line) and two  *)
(* narrow ones (13 and 12 characters per line).                            *)
(***************************************************************************)
Pieces ==
    { S(<<"a">>), Repeat(S(<<"b">>), 6), Repeat(S(<<"c">>), 13),
      S(<<" ">>), Repeat(S(<<" ">>), 13) }

Texts == { CatAll(ps) : ps \in UNION { [1..n -> Pieces] : n \in 0..MaxPieces } }

WrapParams ==
    { [width |-> 10675, font_size |-> 880, bold |-> FALSE],
      [width |-> 7000, font_size |-> 1000, bold |-> FALSE],
      [width |-> 7000, font_size |-> 1000, bold |-> TRUE] }

InitWrap ==
    /\ pc = "call"
    /\ call \in { [fn |-> "wrap_text", text |-> t, width |-> p.width,
                   font_size |-> p.font_size, bold |-> p.bold] :
                  t \in Texts, p \in WrapParams }
    /\ ret = <<>>
    /\ IdleGenerate

CallWrapText ==
    /\ pc = "call"
    /\ call.fn = "wrap_text"
    /\ ret' = wrap_text(call.text, call.width, call.font_size, call.bold)
    /\ pc' = "return"
    /\ UNCHANGED <<call, generateVars>>

NextWrap == CallWrapText

SpecWrap == InitWrap /\ [][NextWrap]_vars

(***************************************************************************)
(* SpecEscape: pdf_escape applied to every string of at most MaxEscLen     *)
(* characters over ( ) \ and a.                                            *)
(***************************************************************************)
EscAlphabet == {"(", ")", "\\", "a"}

InitEscape ==
    /\ pc = "call"
    /\ call \in { [fn |-> "pdf_escape", text |-> S(cs)] :
                  cs \in UNION { [1..n -> EscAlphabet] : n \in 0..MaxEscLen } }
    /\ ret = <<>>
    /\ IdleGenerate

CallPdfEscape ==
    /\ pc = "call"
    /\ call.fn = "pdf_escape"
    /\ ret' = pdf_escape(call.text)
    /\ pc' = "return"
    /\ UNCHANGED <<call, generateVars>>

NextEscape == CallPdfEscape

SpecEscape == InitEscape /\ [][NextEscape]_vars

(***************************************************************************)
(* SpecLoad: load_cv_lines applied to every file of at most MaxFileLines   *)
(* lines drawn from: an empty line, a line of one space, "A", " B " and    *)
(* "c  ".                                                                  *)
(***************************************************************************)
FileLines ==
    { <<>>, S(<<" ">>), S(<<"A">>), S(<<" ", "B", " ">>), S(<<"c", " ", " ">>) }

InitLoad ==
    /\ pc = "call"
    /\ call \in { [fn |-> "load_cv_lines", lines |-> ls] :
                  ls \in UNION { [1..n -> FileLines] : n \in 0..MaxFileLines } }
    /\ ret = <<>>
    /\ IdleGenerate

CallLoadCvLines ==
    /\ pc = "call"
    /\ call.fn = "load_cv_lines"
    /\ ret' = load_cv_lines(call.lines)
    /\ pc' = "return"
    /\ UNCHANGED <<call, generateVars>>

NextLoad == CallLoadCvLines

SpecLoad == InitLoad /\ [][NextLoad]_vars

(***************************************************************************)
(* Properties of wrap_text (SpecWrap).                                     *)
(***************************************************************************)
\* the positions at which a word of cs starts
WordStarts(cs) ==
    { i \in 1..Len(cs) : cs[i] # " " /\ (i = 1 \/ cs[i - 1] = " ") }

\* the position at which the word that starts at i ends
WordEnd(cs, i) ==
    CHOOSE j \in i..Len(cs) :
        /\ \A k \in i..j : cs[k] # " "
        /\ (j = Len(cs) \/ cs[j + 1] = " ")

\* the words of a sequence of characters: its maximal runs of non-spaces
WordsOf(cs) ==
    [k \in 1..Cardinality(WordStarts(cs)) |->
        LET i == CHOOSE i \in WordStarts(cs) :
                     Cardinality({j \in WordStarts(cs) : j < i}) = k - 1
        IN  SubSeq(cs, i, WordEnd(cs, i))]

RECURSIVE JoinSpaces(_)
\* " ".join(lines), as characters
JoinSpaces(ls) ==
    IF ls = <<>> THEN <<>>
    ELSE IF Len(ls) = 1 THEN Expand(ls[1])
    ELSE Expand(ls[1]) \o <<" ">> \o JoinSpaces(Tail(ls))

\* maxChars = max(12, floor(width / (fontSize * factor)))
MaxCharsOf(c) ==
    Max(12, (c.width * 100) \div (c.font_size * (IF c.bold THEN 56 ELSE 53)))

\* the line is one word and nothing else
IsSingleWord(line) == WordsOf(Expand(line)) = <<Expand(line)>>

WithinBudget(line, m) ==
    StrLen(line) <= m \/ (IsSingleWord(line) /\ StrLen(line) > m)

KeepsWords(c, r) == WordsOf(JoinSpaces(r)) = WordsOf(Expand(c.text))

\* C6 as stated: for every text, width and font size the returned lines
\* joined with single spaces reproduce the word sequence of the text, no
\* line is longer than maxChars unless it is a single word that alone
\* exceeds maxChars, and the empty text yields the single line "".
C6_WrapAsClaimed ==
    (pc = "return" /\ call.fn = "wrap_text") =>
        /\ KeepsWords(call, ret)
        /\ \A i \in 1..Len(ret) : WithinBudget(ret[i], MaxCharsOf(call))
        /\ (call.text = <<>> => ret = <<<<>>>>)

\* C6 amended: the word sequence is reproduced for every text; the length
\* bound holds for every text that holds at least one word; a non-empty
\* text of whitespace only is returned unchanged as the single line,
\* whatever its length; the empty text yields the single line "".
C6_WrapAmended ==
    (pc = "return" /\ call.fn = "wrap_text") =>
        /\ KeepsWords(call, ret)
        /\ (WordsOf(Expand(call.text)) # <<>> =>
               \A i \in 1..Len(ret) : WithinBudget(ret[i], MaxCharsOf(call)))
        /\ (WordsOf(Expand(call.text)) = <<>> => ret = <<call.text>>)
        /\ (call.text = <<>> => ret = <<<<>>>>)

\* a text of several words was cut into lines, one of them a single word
\* wider than maxChars, another one holding two words
C6_WrapWitness ==
    /\ pc = "return"
    /\ call.fn = "wrap_text"
    /\ Len(ret) >= 2
    /\ \E i \in 1..Len(ret) : StrLen(ret[i]) > MaxCharsOf(call)
    /\ \E i \in 1..Len(ret) : Len(WordsOf(Expand(ret[i]))) >= 2

(***************************************************************************)
(* Properties of pdf_escape (SpecEscape).                                  *)
(***************************************************************************)
RECURSIVE Unescape(_)
\* the reader's side: a backslash is dropped and the character after it kept
Unescape(cs) ==
    IF cs = <<>> THEN <<>>
    ELSE IF cs[1] = "\\" /\ Len(cs) >= 2
         THEN <<cs[2]>> \o Unescape(SubSeq(cs, 3, Len(cs)))
         ELSE <<cs[1]>> \o Unescape(Tail(cs))

RECURSIVE EscapedCharwise(_)
\* each ( ) \ prefixed by one backslash, every other character as it is
EscapedCharwise(cs) ==
    IF cs = <<>> THEN <<>>
    ELSE (IF cs[1] \in {"(", ")", "\\"} THEN <<"\\", cs[1]>> ELSE <<cs[1]>>)
         \o EscapedCharwise(Tail(cs))

\* C7: un-escaping pdf_escape(s) recovers s exactly, and pdf_escape prefixes
\* each ( ) \ with exactly one backslash and leaves every other character
\* unchanged and in order.
C7_EscapeRoundTrip ==
    (pc = "return" /\ call.fn = "pdf_escape") =>
        /\ Unescape(Expand(ret)) = Expand(call.text)
        /\ Expand(ret) = EscapedCharwise(Expand(call.text))

\* a string holding a backslash, both parentheses and an ordinary character
\* has been escaped
C7_EscapeWitness ==
    /\ pc = "return"
    /\ call.fn = "pdf_escape"
    /\ Expand(call.text) = <<"\\", "(", "a", ")">>
    /\ StrLen(ret) = 7

(***************************************************************************)
(* Properties of load_cv_lines (SpecLoad).                                 *)
(***************************************************************************)
NonBlank(ls) == { i \in 1..Len(ls) : Strip(ls[i]) # <<>> }

MinOf(s) == CHOOSE x \in s : \A z \in s : x <= z

FirstNonBlank(ls) == MinOf(NonBlank(ls))

SecondNonBlank(ls) == MinOf(NonBlank(ls) \ {FirstNonBlank(ls)})

RECURSIVE RStripAllBut(_, _, _)
\* the lines of ls from index i on, those at the indexes of skip left out,
\* right-stripped
RStripAllBut(ls, i, skip) ==
    IF i > Len(ls) THEN <<>>
    ELSE (IF i \in skip THEN <<>> ELSE <<RStrip(ls[i])>>)
         \o RStripAllBut(ls, i + 1, skip)

\* the first two non-blank lines, or as many as there are
HeaderLines(ls) ==
    IF NonBlank(ls) = {} THEN {}
    ELSE IF Cardinality(NonBlank(ls)) = 1 THEN {FirstNonBlank(ls)}
    ELSE {FirstNonBlank(ls), SecondNonBlank(ls)}

\* C9 as stated: the name is the first non-blank line, the subtitle the
\* second, and the body is exactly the lines that follow the second
\* non-blank line, right-stripped: blank lines before the name or between
\* name and subtitle are not part of the body.
C9_LoadAsClaimed ==
    (pc = "return" /\ call.fn = "load_cv_lines"
        /\ Cardinality(NonBlank(call.lines)) >= 2) =>
        /\ ret.name = Strip(call.lines[FirstNonBlank(call.lines)])
        /\ ret.subtitle = Strip(call.lines[SecondNonBlank(call.lines)])
        /\ ret.remaining =
              RStripAllBut(call.lines, SecondNonBlank(call.lines) + 1, {})

\* C9 amended: the name is the first non-blank line and the subtitle the
\* second (the built-in defaults when the file has none), and the body is
\* every line of the file other than these two, in order and
\* right-stripped: blank lines before the name or between name and subtitle
\* are part of the body.
C9_LoadAmended ==
    (pc = "return" /\ call.fn = "load_cv_lines") =>
        /\ ret.name = (IF NonBlank(call.lines) = {} THEN DefaultName
                       ELSE Strip(call.lines[FirstNonBlank(call.lines)]))
        /\ ret.subtitle = (IF Cardinality(NonBlank(call.lines)) < 2
                           THEN DefaultSubtitle
                           ELSE Strip(call.lines[SecondNonBlank(call.lines)]))
        /\ ret.remaining = RStripAllBut(call.lines, 1, HeaderLines(call.lines))

\* a file with a blank line before the name and a body line with trailing
\* spaces has been loaded: the blank line is in the body
C9_LoadWitness ==
    /\ pc = "return"
    /\ call.fn = "load_cv_lines"
    /\ call.lines = <<<<>>, S(<<"A">>), S(<<" ", "B", " ">>), S(<<"c", " ", " ">>)>>
    /\ ret.remaining = <<<<>>, S(<<"c">>)>>


(***************************************************************************)
(* Spec: generate().  The file is read by load_cv_lines; its body is       *)
(* walked line by line, one action per kind of line.  lines holds the body *)
(* lines walked so far, more tells whether the file has a body at all.     *)
(* The file has no line (the defaults are used) or the two header lines,   *)
(* and then at most MaxLines body lines out of CvBodyLines.                *)
(***************************************************************************)
HeaderOnly ==
    << S(<<"J", "a", "n", "e", " ", "(", "J", ")", " ", "D", "o", "e">>),
       S(<<"E", "n", "g", "i", "n", "e", "e", "r">>) >>

CvHeads == { <<>>, HeaderOnly }

\* n words of k letters x, separated by single spaces
Words(n, k) ==
    CatAll([i \in 1..(2 * n - 1) |->
              IF i % 2 = 1 THEN Repeat(S(<<"x">>), k) ELSE S(<<" ">>)])

\* a bullet of 43 wrapped lines (two words of 47 fill the 95 characters)
LongBullet == Cat(S(<<"-", " ">>), Words(85, 47))

\* a plain line of 45 wrapped lines (one word of 49 out of 96 characters)
LongPlain == Words(45, 49)

CvBodyLines ==
    { <<>>,
      S(<<" ", "E", "x", "p", "e", "r", "i", "e", "n", "c", "e", " ", " ">>),
      S(<<"-", " ", "P", "a", "g", "e", " ", "2", " ", "(", "a", ")", " ">>),
      LongBullet,
      S(<<"-", "a", " ", "\\", " ", "b">>),
      LongPlain }

\* a body line as load_cv_lines returns it, the two header lines skipped
BodyLine(ln) == Remaining(<<ln>>, 2)[1]

Init ==
    /\ pc = "start"
    /\ IdleGenerate
    /\ call = NoCall
    /\ ret = <<>>

\* lines 236-287: the file is loaded, the first page begun and filled
Start ==
    /\ pc = "start"
    /\ \E cv_file \in CvHeads :
         LET cv == load_cv_lines(cv_file)
         IN  /\ name' = cv.name
             /\ subtitle' = cv.subtitle
             /\ lines' = cv.remaining
             /\ more' = (cv_file # <<>>)
             /\ pdf' = FirstPage(cv.name, cv.subtitle)
    /\ y' = container_y - 18
    /\ steps' = <<>>
    /\ pc' = "loop"
    /\ UNCHANGED <<reported, file, call, ret>>

\* the round of the loop for the next body line, given what it does
Round(raw_line, st) ==
    /\ lines' = Append(lines, raw_line)
    /\ pdf' = st.pdf
    /\ y' = st.y
    /\ steps' = st.steps
    /\ UNCHANGED <<pc, name, subtitle, more, reported, file, call, ret>>

Fresh == [pdf |-> pdf, y |-> y, steps |-> <<>>]

Blank ==
    /\ pc = "loop" /\ more /\ Len(lines) < MaxLines
    /\ \E ln \in CvBodyLines :
         LET raw_line == BodyLine(ln)
             line == Strip(raw_line)
         IN  /\ line = <<>>
             /\ Round(raw_line, BlankLine(Fresh))

Heading ==
    /\ pc = "loop" /\ more /\ Len(lines) < MaxLines
    /\ \E ln \in CvBodyLines :
         LET raw_line == BodyLine(ln)
             line == Strip(raw_line)
             is_heading == line \in headings /\ ~StartsWithDash(line)
         IN  /\ line # <<>>
             /\ is_heading
             /\ Round(raw_line, HeadingLine(Fresh, line))

Bullet ==
    /\ pc = "loop" /\ more /\ Len(lines) < MaxLines
    /\ \E ln \in CvBodyLines :
         LET raw_line == BodyLine(ln)
             line == Strip(raw_line)
             is_heading == line \in headings /\ ~StartsWithDash(line)
             is_bullet == StartsWithDashSpace(line)
         IN  /\ line # <<>>
             /\ ~is_heading
             /\ is_bullet
             /\ Round(raw_line, BulletLine(Fresh, line))

Plain ==
    /\ pc = "loop" /\ more /\ Len(lines) < MaxLines
    /\ \E ln \in CvBodyLines :
         LET raw_line == BodyLine(ln)
             line == Strip(raw_line)
             is_heading == line \in headings /\ ~StartsWithDash(line)
             is_bullet == StartsWithDashSpace(line)
         IN  /\ line # <<>>
             /\ ~is_heading
             /\ ~is_bullet
             /\ Round(raw_line, PlainLine(Fresh, line))

\* lines 331-333: the last page is finished and the page count printed; the
\* bytes write_pdf makes of page_streams are the subject of SpecWrite
Finish ==
    /\ pc = "loop"
    /\ pdf' = finish_page(pdf)
    /\ reported' = Len(pdf'.page_streams)
    /\ pc' = "done"
    /\ UNCHANGED <<name, subtitle, lines, more, y, steps, file, call, ret>>

Next == Start \/ Blank \/ Heading \/ Bullet \/ Plain \/ Finish

Spec == Init /\ [][Next]_vars


(***************************************************************************)
(* Reading a page back: its text runs.  text() emits Tf, Tm and Tj one     *)
(* after the other, so the run of the Tj at i has its font at i - 2 and    *)
(* its position at i - 1.                                                  *)
(***************************************************************************)
\* the pages begun so far, the open one last
Pages ==
    pdf.page_streams \o (IF pc = "loop" THEN <<pdf.current_stream>> ELSE <<>>)

TjAt(page) == { i \in DOMAIN page : page[i].op = "Tj" }

RunAt(page, i) ==
    [font |-> page[i - 2].font, size |-> page[i - 2].size,
     x |-> page[i - 1].x, y |-> page[i - 1].y, string |-> page[i].string]

RunsOf(page) == { RunAt(page, i) : i \in TjAt(page) }

CountOp(page, op) == Cardinality({ i \in DOMAIN page : page[i].op = op })

\* what a run is, by the font and the size only that element is drawn in
IsPageLabel(r) == r.font = "F1" /\ r.size = 950 /\ r.x = Pt(PAGE_WIDTH - 102)
IsHeadingRun(r) == r.font = "F2" /\ r.size = 1100
IsBulletRun(r) == r.font = "F1" /\ r.size = 960
IsPlainRun(r) == r.font = "F1" /\ r.size = 980
IsNameRun(r) == r.font = "F2" /\ r.size \in {2400, 1800}
IsSubtitleRun(r) == r.font = "F1" /\ r.size = 1100
IsContactRun(r) == r.font = "F1" /\ r.size = 920
IsMetricValueRun(r) == r.font = "F2" /\ r.size \in {1600, 1350}
IsMetricLabelRun(r) == r.font = "F1" /\ r.size = 880

(***************************************************************************)
(* C3: after any sequence of body lines, every page after the first        *)
(* carries exactly one "Page N" label, N being the page's position in page *)
(* order; the first page carries none; the page counter counts the pages   *)
(* begun, so that at the end page_no is the number of finalized pages.     *)
(***************************************************************************)
C3_PageLabels ==
    /\ \A k \in DOMAIN Pages :
         LET labels == { r \in RunsOf(Pages[k]) : IsPageLabel(r) }
             count == Cardinality({ i \in TjAt(Pages[k]) :
                                      IsPageLabel(RunAt(Pages[k], i)) })
         IN  IF k = 1 THEN count = 0
             ELSE /\ count = 1
                  /\ \A r \in labels :
                       r.string = Cat(S(<<"P", "a", "g", "e", " ">>), S(DecChars(k)))
    /\ pdf.page_no = Len(Pages)
    /\ pc = "done" => /\ pdf.page_no = Len(pdf.page_streams)
                      /\ reported = pdf.page_no

\* three pages were finalized
C3_PageLabelsWitness ==
    /\ pc = "done"
    /\ Len(pdf.page_streams) = 3
    /\ \E r \in RunsOf(pdf.page_streams[3]) :
         IsPageLabel(r) /\ r.string = S(<<"P", "a", "g", "e", " ", "3">>)

(***************************************************************************)
(* C4: every heading is rendered at a cursor y >= bottom_limit + 16 = 72,  *)
(* on whatever page it lands.                                              *)
(***************************************************************************)
C4_HeadingRoom ==
    /\ \A k \in DOMAIN Pages :
         \A r \in RunsOf(Pages[k]) : IsHeadingRun(r) => r.y >= Pt(72)
    /\ \A i \in DOMAIN steps :
         steps[i].kind = "heading" => steps[i].at >= 72

\* the heading handled last was drawn at 72 exactly
C4_HeadingRoomWitness ==
    /\ pc = "loop"
    /\ steps # <<>>
    /\ steps[1].kind = "heading"
    /\ steps[1].at = 72
    /\ \E r \in RunsOf(pdf.current_stream) : IsHeadingRun(r) /\ r.y = Pt(72)

(***************************************************************************)
(* C10: before each wrapped line of a bullet or plain line is rendered the *)
(* page breaks if and only if the cursor is below 66; the cursor after a   *)
(* break is 730; each rendered line lowers the cursor by 12.  Hence every  *)
(* bullet or plain run is drawn at y >= 66, and the cursor between two     *)
(* body lines is never below 54.                                           *)
(***************************************************************************)
C10_WrappedLineBreaks ==
    /\ \A i \in DOMAIN steps :
         steps[i].kind \in {"bullet", "plain"} =>
           LET s == steps[i]
               broke == s.pages_after = s.pages_before + 1
           IN  /\ s.pages_after \in {s.pages_before, s.pages_before + 1}
               /\ broke <=> s.before < 66
               /\ broke => s.at = 730
               /\ ~broke => s.at = s.before
               /\ s.after = s.at - 12
               /\ i > 1 => s.before = steps[i - 1].after
    /\ \A k \in DOMAIN Pages :
         \A r \in RunsOf(Pages[k]) :
           IsBulletRun(r) \/ IsPlainRun(r) => r.y >= Pt(66)
    /\ pc = "loop" /\ steps # <<>> /\ steps[Len(steps)].kind \in {"bullet", "plain"}
         => /\ y = steps[Len(steps)].after
            /\ \E r \in RunsOf(pdf.current_stream) :
                 /\ IsBulletRun(r) \/ IsPlainRun(r)
                 /\ r.y = Pt(steps[Len(steps)].at)
    /\ pc = "loop" => y >= 54

\* a plain line broke the page in its middle, a wrapped line before it
\* having been drawn at 66 exactly
C10_WrappedLineBreaksWitness ==
    /\ pc = "loop"
    /\ \E i \in DOMAIN steps :
         /\ i > 1
         /\ steps[i].kind = "plain"
         /\ steps[i].before = 54
         /\ steps[i - 1].at = 66
         /\ steps[i].at = 730
         /\ steps[i].pages_after = steps[i].pages_before + 1

(***************************************************************************)
(* C8: for an empty input file generate produces exactly one finalized     *)
(* page, the reported page count being 1.                                  *)
(* As claimed, the page holds the decorative elements and the header panel *)
(* (the panel, the name and the subtitle) only.                            *)
(***************************************************************************)
EmptyInputDone == pc = "done" /\ ~more /\ lines = <<>>

\* the decor: the background, four circles and 24 star dots
DecorOnly(page, panels) ==
    /\ CountOp(page, "re") = 1 + 24 + panels
    /\ CountOp(page, "path") = 4

C8_EmptyInputAsClaimed ==
    EmptyInputDone =>
      /\ reported = 1
      /\ Len(pdf.page_streams) = 1
      /\ DecorOnly(pdf.page_streams[1], 1)
      /\ \A r \in RunsOf(pdf.page_streams[1]) : IsNameRun(r) \/ IsSubtitleRun(r)

(***************************************************************************)
(* C8, amended: for an empty input file generate produces exactly one      *)
(* finalized page, the reported page count being 1, and that page holds    *)
(* the decorative elements, the header panel with the default name and     *)
(* subtitle, the contact line and the metrics row (the container and four  *)
(* cards, each with its value and at most two label lines), and nothing    *)
(* else: no body text and no page label.                                   *)
(***************************************************************************)
C8_EmptyInputAmended ==
    EmptyInputDone =>
      /\ reported = 1
      /\ Len(pdf.page_streams) = 1
      /\ LET page == pdf.page_streams[1]
             runs == RunsOf(page)
         IN  /\ DecorOnly(page, 1 + 1 + 4)
             /\ \A r \in runs :
                  \/ IsNameRun(r) /\ r.string = pdf_escape(DefaultName)
                  \/ IsSubtitleRun(r) /\ r.string = pdf_escape(DefaultSubtitle)
                  \/ IsContactRun(r)
                  \/ IsMetricValueRun(r)
                  \/ IsMetricLabelRun(r)
             /\ Cardinality({ i \in TjAt(page) : IsNameRun(RunAt(page, i)) }) = 1
             /\ Cardinality({ i \in TjAt(page) : IsSubtitleRun(RunAt(page, i)) }) = 1
             /\ Cardinality({ i \in TjAt(page) : IsContactRun(RunAt(page, i)) }) = 1
             /\ Cardinality({ i \in TjAt(page) : IsMetricValueRun(RunAt(page, i)) }) = 4
             /\ Cardinality({ i \in TjAt(page) : IsMetricLabelRun(RunAt(page, i)) })
                  \in 4..8

\* the run on the empty file is over, its page holding the contact line
C8_EmptyInputWitness ==
    /\ EmptyInputDone
    /\ name = DefaultName
    /\ \E r \in RunsOf(pdf.page_streams[1]) : IsContactRun(r)


(***************************************************************************)
(* write_pdf.  Here a page stream is the string finish_page joined, a      *)
(* sequence of code points, and the file written is a sequence of bytes.   *)
(* The literals are the bytes of the text in the comment before them.      *)
(***************************************************************************)
RECURSIVE Digits(_)
\* str(n).encode("ascii") for n >= 0
Digits(n) ==
    IF n < 10 THEN <<48 + n>> ELSE Append(Digits(n \div 10), 48 + (n % 10))

\* f"{n:010d}"
ZeroPad10(n) ==
    LET d == Digits(n)
    IN  [k \in 1..(IF Len(d) < 10 THEN 10 - Len(d) ELSE 0) |-> 48] \o d

\* a mutant: the stream is encoded as UTF-8 (code points up to 0xFFFF)
Latin1Replace_utf8(stream) ==
    LET Enc(cp) == IF cp < 128 THEN <<cp>>
                   ELSE IF cp < 2048 THEN <<192 + (cp \div 64), 128 + (cp % 64)>>
                   ELSE <<224 + (cp \div 4096), 128 + ((cp \div 64) % 64),
                          128 + (cp % 64)>>
        F[i \in 0..Len(stream)] == IF i = 0 THEN <<>> ELSE F[i - 1] \o Enc(stream[i])
    IN  F[Len(stream)]

\* stream.encode("latin-1", errors="replace"): a code point Latin-1 lacks
\* becomes "?"
Latin1Replace(stream) ==
    [i \in 1..Len(stream) |-> IF stream[i] < 256 THEN stream[i] ELSE 63]

\* "<< /Type /Catalog /Pages 2 0 R >>"
CatalogObject ==
    <<60, 60, 32, 47, 84, 121, 112, 101, 32, 47, 67, 97, 116, 97,
      108, 111, 103, 32, 47, 80, 97, 103, 101, 115, 32, 50, 32, 48,
      32, 82, 32, 62, 62>>

\* "<< /Type /Font /Subtype /Type1 /BaseFont /Helvetica >>"
Font1Object ==
    <<60, 60, 32, 47, 84, 121, 112, 101, 32, 47, 70, 111, 110, 116,
      32, 47, 83, 117, 98, 116, 121, 112, 101, 32, 47, 84, 121, 112,
      101, 49, 32, 47, 66, 97, 115, 101, 70, 111, 110, 116, 32, 47,
      72, 101, 108, 118, 101, 116, 105, 99, 97, 32, 62, 62>>

\* "<< /Type /Font /Subtype /Type1 /BaseFont /Helvetica-Bold >>"
Font2Object ==
    <<60, 60, 32, 47, 84, 121, 112, 101, 32, 47, 70, 111, 110, 116,
      32, 47, 83, 117, 98, 116, 121, 112, 101, 32, 47, 84, 121, 112,
      101, 49, 32, 47, 66, 97, 115, 101, 70, 111, 110, 116, 32, 47,
      72, 101, 108, 118, 101, 116, 105, 99, 97, 45, 66, 111, 108,
      100, 32, 62, 62>>

\* "<< /Length {len(stream_bytes)} >>\nstream\n" + stream_bytes + "endstream"
ContentObject(stream) ==
    LET stream_bytes == Latin1Replace(stream)
    IN  <<60, 60, 32, 47, 76, 101, 110, 103, 116, 104, 32>>
        \o Digits(Len(stream_bytes))
        \o <<32, 62, 62, 10, 115, 116, 114, 101, 97, 109, 10>>
        \o stream_bytes
        \o <<101, 110, 100, 115, 116, 114, 101, 97, 109>>

\* "<< /Type /Page /Parent 2 0 R /MediaBox [0 0 {PAGE_WIDTH} {PAGE_HEIGHT}] "
\* "/Resources << /Font << /F1 3 0 R /F2 4 0 R >> >> /Contents {content_id} 0 R >>"
PageObject(content_id) ==
    <<60, 60, 32, 47, 84, 121, 112, 101, 32, 47, 80, 97, 103, 101,
      32, 47, 80, 97, 114, 101, 110, 116, 32, 50, 32, 48, 32, 82, 32,
      47, 77, 101, 100, 105, 97, 66, 111, 120, 32, 91, 48, 32, 48,
      32>>
    \o Digits(PAGE_WIDTH) \o <<32>> \o Digits(PAGE_HEIGHT)
    \o <<93, 32, 47, 82, 101, 115, 111, 117, 114, 99, 101, 115, 32, 60,
         60, 32, 47, 70, 111, 110, 116, 32, 60, 60, 32, 47, 70, 49, 32,
         51, 32, 48, 32, 82, 32, 47, 70, 50, 32, 52, 32, 48, 32, 82, 32,
         62, 62, 32, 62, 62, 32, 47, 67, 111, 110, 116, 101, 110, 116,
         115, 32>>
    \o Digits(content_id)
    \o <<32, 48, 32, 82, 32, 62, 62>>

\* a mutant: the content object is listed among the kids
AddPage_content_as_kid(st, stream) ==
    LET page_id == st.next_id
        content_id == st.next_id + 1
    IN  [next_id |-> st.next_id + 2,
         page_object_ids |-> Append(st.page_object_ids, content_id),
         objects |-> (content_id :> ContentObject(stream))
                     @@ (page_id :> PageObject(content_id)) @@ st.objects]

\* one round of the loop over page_streams
AddPage(st, stream) ==
    LET page_id == st.next_id
        content_id == st.next_id + 1
    IN  [next_id |-> st.next_id + 2,
         page_object_ids |-> Append(st.page_object_ids, page_id),
         objects |-> (content_id :> ContentObject(stream))
                     @@ (page_id :> PageObject(content_id)) @@ st.objects]

RECURSIVE AddPages(_, _, _)
\* for stream in self.page_streams, from the k-th on
AddPages(st, page_streams, k) ==
    IF k > Len(page_streams) THEN st
    ELSE AddPages(AddPage(st, page_streams[k]), page_streams, k + 1)

RECURSIVE Kids(_)
\* " ".join(f"{n} 0 R" for n in page_object_ids)
Kids(page_object_ids) ==
    IF page_object_ids = <<>> THEN <<>>
    ELSE Digits(page_object_ids[1]) \o <<32, 48, 32, 82>>
         \o (IF Len(page_object_ids) > 1 THEN <<32>> ELSE <<>>)
         \o Kids(Tail(page_object_ids))

\* "<< /Type /Pages /Count {len(page_object_ids)} /Kids [{kids}] >>"
PagesObject(page_object_ids) ==
    <<60, 60, 32, 47, 84, 121, 112, 101, 32, 47, 80, 97, 103, 101,
      115, 32, 47, 67, 111, 117, 110, 116, 32>>
    \o Digits(Len(page_object_ids))
    \o <<32, 47, 75, 105, 100, 115, 32, 91>>
    \o Kids(page_object_ids)
    \o <<93, 32, 62, 62>>

RECURSIVE Sorted(_)
\* sorted(objects), the keys ascending
Sorted(ids) ==
    IF ids = {} THEN <<>>
    ELSE LET least == CHOOSE a \in ids : \A b \in ids : a <= b
         IN  <<least>> \o Sorted(ids \ {least})

\* "%PDF-1.4\n%\xe2\xe3\xcf\xd3\n"
PdfHeader == <<37, 80, 68, 70, 45, 49, 46, 52, 10, 37, 226, 227, 207, 211, 10>>

\* a mutant: the offset is taken after the object's first line is appended
EmitObject_offset_late(st, obj_id, objects) ==
    LET head == Digits(obj_id) \o <<32, 48, 32, 111, 98, 106, 10>>
    IN  [offsets |-> (obj_id :> Len(st.output \o head)) @@ st.offsets,
         output |-> st.output \o head \o objects[obj_id] \o <<10, 101, 110, 100, 111, 98, 106, 10>>]

\* one round of the loop over ordered; output is output_parts joined
EmitObject(st, obj_id, objects) ==
    [offsets |-> (obj_id :> Len(st.output)) @@ st.offsets,
     output |-> st.output
                \o Digits(obj_id) \o <<32, 48, 32, 111, 98, 106, 10>>
                \o objects[obj_id]
                \o <<10, 101, 110, 100, 111, 98, 106, 10>>]

RECURSIVE EmitObjects(_, _, _, _)
\* for obj_id in ordered, from the k-th on
EmitObjects(st, ordered, objects, k) ==
    IF k > Len(ordered) THEN st
    ELSE EmitObjects(EmitObject(st, ordered[k], objects), ordered, objects, k + 1)

RECURSIVE XrefEntries(_, _, _)
\* for i in range(i, max_id + 1): f"{offsets.get(i, 0):010d} 00000 n \n"
XrefEntries(offsets, i, max_id) ==
    IF i > max_id THEN <<>>
    ELSE ZeroPad10(IF i \in DOMAIN offsets THEN offsets[i] ELSE 0)
         \o <<32, 48, 48, 48, 48, 48, 32, 110, 32, 10>>
         \o XrefEntries(offsets, i + 1, max_id)

\* the bytes write_pdf writes to path
write_pdf(p) ==
    LET first == [next_id |-> 5, page_object_ids |-> <<>>,
                  objects |-> (1 :> CatalogObject) @@ (3 :> Font1Object)
                              @@ (4 :> Font2Object)]
        paged == AddPages(first, p.page_streams, 1)
        objects == (2 :> PagesObject(paged.page_object_ids)) @@ paged.objects
        ordered == Sorted(DOMAIN objects)
        emitted == EmitObjects([offsets |-> (0 :> 0), output |-> PdfHeader],
                               ordered, objects, 1)
        xref_pos == Len(emitted.output)
        max_id == ordered[Len(ordered)]
        \* "xref\n0 {max_id + 1}\n", "0000000000 65535 f \n" and the entries
        xref == <<120, 114, 101, 102, 10, 48, 32>> \o Digits(max_id + 1) \o <<10>>
                \o <<48, 48, 48, 48, 48, 48, 48, 48, 48, 48, 32, 54, 53, 53, 51, 53,
                     32, 102, 32, 10>>
                \o XrefEntries(emitted.offsets, 1, max_id)
        \* "trailer\n<< /Size {max_id + 1} /Root 1 0 R >>\n"
        \* "startxref\n{xref_pos}\n%%EOF\n"
        trailer == <<116, 114, 97, 105, 108, 101, 114, 10, 60, 60, 32, 47, 83, 105,
                     122, 101, 32>>
                   \o Digits(max_id + 1)
                   \o <<32, 47, 82, 111, 111, 116, 32, 49, 32, 48, 32, 82, 32, 62, 62,
                        10, 115, 116, 97, 114, 116, 120, 114, 101, 102, 10>>
                   \o Digits(xref_pos)
                   \o <<10, 37, 37, 69, 79, 70, 10>>
    IN  emitted.output \o xref \o trailer

(***************************************************************************)
(* SpecWrite: write_pdf applied to an object of at most MaxPages finalized *)
(* pages.  A page stream is one of PageStreams: the empty stream, a text   *)
(* with a Latin-1 letter (e acute), a text with a code point Latin-1 lacks *)
(* (a bullet, U+2022), and a text that reads like the writer's own tokens. *)
(***************************************************************************)
PageStreams ==
    { <<>>,
      \* "BT\n(café) Tj\nET\n"
      <<66, 84, 10, 40, 99, 97, 102, 233, 41, 32, 84, 106, 10, 69, 84,
        10>>,
      \* "(• a) Tj\n"
      <<40, 8226, 32, 97, 41, 32, 84, 106, 10>>,
      \* "(6 0 obj endstream) Tj\n"
      <<40, 54, 32, 48, 32, 111, 98, 106, 32, 101, 110, 100, 115, 116,
        114, 101, 97, 109, 41, 32, 84, 106, 10>> }

InitWrite ==
    /\ pc = "write"
    /\ \E n \in 0..MaxPages :
         \E page_streams \in [1..n -> PageStreams] :
           pdf = [page_streams |-> page_streams, current_stream |-> <<>>,
                  page_no |-> n]
    /\ name = <<>>
    /\ subtitle = <<>>
    /\ lines = <<>>
    /\ more = FALSE
    /\ y = 0
    /\ steps = <<>>
    /\ reported = 0
    /\ file = <<>>
    /\ call = NoCall
    /\ ret = <<>>

WritePdf ==
    /\ pc = "write"
    /\ file' = write_pdf(pdf)
    /\ pc' = "written"
    /\ UNCHANGED <<pdf, name, subtitle, lines, more, y, steps, reported, call, ret>>

NextWrite == WritePdf

SpecWrite == InitWrite /\ [][NextWrite]_vars


(***************************************************************************)
(* Reading the file back, as a PDF reader does: from the end, the          *)
(* startxref value; at it, the cross-reference table; at the offset of an  *)
(* entry, the object.  Offsets count from 0.                               *)
(***************************************************************************)
\* the bytes of pat stand in f at offset off
MatchAt(f, off, pat) ==
    /\ off >= 0
    /\ off + Len(pat) <= Len(f)
    /\ \A i \in 1..Len(pat) : f[off + i] = pat[i]

IsDigit(b) == b \in 48..57

\* the offset after the digits that start at off
DigitsEnd(f, off) ==
    CHOOSE e \in off..Len(f) :
      /\ \A i \in (off + 1)..e : IsDigit(f[i])
      /\ e = Len(f) \/ ~IsDigit(f[e + 1])

RECURSIVE NatOf(_, _, _)
\* the number the digits from off up to e write
NatOf(f, off, e) ==
    IF e <= off THEN 0 ELSE 10 * NatOf(f, off, e - 1) + (f[e] - 48)

ReadNat(f, off) == NatOf(f, off, DigitsEnd(f, off))

\* pat stands somewhere in f at an offset of lo..hi - Len(pat)
Contains(f, lo, hi, pat) ==
    \E off \in lo..(hi - Len(pat)) : MatchAt(f, off, pat)

\* "\n%%EOF\n", "startxref\n", "xref\n0 ", "\nendobj\n", " 0 obj\n"
TokEOF == <<10, 37, 37, 69, 79, 70, 10>>
TokStartxref == <<115, 116, 97, 114, 116, 120, 114, 101, 102, 10>>
TokXref == <<120, 114, 101, 102, 10, 48, 32>>
TokEndobj == <<10, 101, 110, 100, 111, 98, 106, 10>>
TokObj == <<32, 48, 32, 111, 98, 106, 10>>

\* the offsets of the last 32 bytes of the file, where a reader looks for
\* the startxref value
Tail32(f) == Max(0, Len(f) - 32)..Len(f)

\* where the digits of the startxref value begin: the file ends with
\* "startxref\n<digits>\n%%EOF\n"
StartxrefAt(f) ==
    CHOOSE off \in Tail32(f) :
      /\ MatchAt(f, off - Len(TokStartxref), TokStartxref)
      /\ DigitsEnd(f, off) > off
      /\ MatchAt(f, DigitsEnd(f, off), TokEOF)
      /\ DigitsEnd(f, off) + Len(TokEOF) = Len(f)

HasStartxref(f) ==
    \E off \in Tail32(f) :
      /\ MatchAt(f, off - Len(TokStartxref), TokStartxref)
      /\ DigitsEnd(f, off) > off
      /\ MatchAt(f, DigitsEnd(f, off), TokEOF)
      /\ DigitsEnd(f, off) + Len(TokEOF) = Len(f)

Startxref(f) == ReadNat(f, StartxrefAt(f))

\* where entry 0 of the table at xref begins, after "xref\n0 <count>\n"
EntriesAt(f, xref) == DigitsEnd(f, xref + Len(TokXref)) + 1

\* the offset entry i of the table gives
XrefOffset(f, i) ==
    LET at == EntriesAt(f, Startxref(f)) + 20 * i
    IN  NatOf(f, at, at + 10)

\* the n of the claims: the finalized pages of the object written
NumPages == Len(pdf.page_streams)
MaxId == 4 + 2 * NumPages

(***************************************************************************)
(* C1: in the file written for n >= 0 finalized pages, for every object ID *)
(* i of 1..max_id the offset of xref entry i is the byte position at which *)
(* the token "<i> 0 obj" begins (no entry is left at 0), and the startxref *)
(* value is the byte position at which the xref section begins.            *)
(***************************************************************************)
C1_XrefOffsets ==
    pc = "written" =>
      /\ HasStartxref(file)
      /\ LET xref == Startxref(file)
             at == EntriesAt(file, xref)
         IN  /\ MatchAt(file, xref, TokXref \o Digits(MaxId + 1) \o <<10>>)
             \* the section begins where the last object ends
             /\ MatchAt(file, xref - Len(TokEndobj), TokEndobj)
             \* "0000000000 65535 f \n"
             /\ MatchAt(file, at, <<48, 48, 48, 48, 48, 48, 48, 48, 48, 48, 32, 54, 53, 53, 51,
                             53, 32, 102, 32, 10>>)
             /\ \A i \in 1..MaxId :
                  /\ \A k \in 1..10 : IsDigit(file[at + 20 * i + k])
                  \* " 00000 n \n"
                  /\ MatchAt(file, at + 20 * i + 10,
                             <<32, 48, 48, 48, 48, 48, 32, 110, 32, 10>>)
                  /\ XrefOffset(file, i) > 0
                  /\ XrefOffset(file, i) < xref
                  /\ MatchAt(file, XrefOffset(file, i), Digits(i) \o TokObj)
                  \* the token begins a line, the header's or an endobj's
                  /\ file[XrefOffset(file, i)] = 10
             \* "trailer\n" follows the last entry
             /\ MatchAt(file, at + 20 * (MaxId + 1),
                        <<116, 114, 97, 105, 108, 101, 114, 10>>)

\* a file of two pages was written: nine entries, the last one object 8's
C1_XrefOffsetsWitness ==
    /\ pc = "written"
    /\ NumPages = 2
    /\ pdf.page_streams[1] # <<>>
    /\ XrefOffset(file, 8) > XrefOffset(file, 7)
    /\ MatchAt(file, XrefOffset(file, 8), Digits(8) \o TokObj)

(***************************************************************************)
(* C2: for every finalized page stream, the /Length written in its         *)
(* content-stream object is the number of bytes emitted between "stream\n" *)
(* and "endstream", and those bytes are the Latin-1 encoding of the page's *)
(* stream, a character Latin-1 lacks replaced by "?".                      *)
(***************************************************************************)
\* the Latin-1 code of a code point, "?" for one that has none
Latin1Byte(cp) == IF cp \in 0..255 THEN cp ELSE 63

C2_StreamLength ==
    pc = "written" =>
      \A k \in 1..NumPages :
        LET id == 6 + 2 * (k - 1)
            \* after "<id> 0 obj\n<< /Length "
            len_at == XrefOffset(file, id) + Len(Digits(id) \o TokObj) + 11
            length == ReadNat(file, len_at)
            \* after " >>\nstream\n"
            body_at == DigitsEnd(file, len_at) + 11
            stream == pdf.page_streams[k]
        IN  \* "<< /Length "
            /\ MatchAt(file, len_at - 11, <<60, 60, 32, 47, 76, 101, 110, 103, 116, 104, 32>>)
            /\ DigitsEnd(file, len_at) > len_at
            \* " >>\nstream\n"
            /\ MatchAt(file, DigitsEnd(file, len_at),
                       <<32, 62, 62, 10, 115, 116, 114, 101, 97, 109, 10>>)
            /\ length = Len(stream)
            /\ \A i \in 1..Len(stream) : file[body_at + i] = Latin1Byte(stream[i])
            \* "endstream\nendobj\n"
            /\ MatchAt(file, body_at + length,
                       <<101, 110, 100, 115, 116, 114, 101, 97, 109, 10, 101, 110,
                       100, 111, 98, 106, 10>>)

\* a page whose stream holds a character Latin-1 lacks was written as "?"
C2_StreamLengthWitness ==
    /\ pc = "written"
    /\ NumPages >= 1
    /\ \E i \in DOMAIN pdf.page_streams[1] : pdf.page_streams[1][i] > 255
    /\ Contains(file, XrefOffset(file, 6), Len(file), <<40, 63, 32, 97, 41>>)

(***************************************************************************)
(* C5: for n finalized pages the object IDs are exactly 1..4+2n: the       *)
(* catalog is 1, the page tree 2, the fonts 3 and 4, the k-th page object  *)
(* 5+2(k-1) and its /Contents the object 6+2(k-1), which holds that page's *)
(* stream; /Kids lists the page objects in page order and /Count is n;     *)
(* every ID referenced in /Kids, /Contents, /Root, /Pages, /Parent and     *)
(* /Font is an emitted object.                                             *)
(***************************************************************************)
\* where object i ends: where the next one, or the xref section, begins
ObjectEnd(f, i) == IF i = MaxId THEN Startxref(f) ELSE XrefOffset(f, i + 1)

\* object i holds pat
ObjectHas(f, i, pat) == Contains(f, XrefOffset(f, i), ObjectEnd(f, i), pat)

RECURSIVE KidsList(_, _)
\* "5 0 R 7 0 R ..." for the pages k..n
KidsList(k, n) ==
    IF k > n THEN <<>>
    ELSE Digits(5 + 2 * (k - 1)) \o <<32, 48, 32, 82>>
         \o (IF k < n THEN <<32>> ELSE <<>>) \o KidsList(k + 1, n)

C5_ObjectIds ==
    pc = "written" =>
      \* the table and the trailer count the objects 0..4+2n
      /\ MatchAt(file, Startxref(file), TokXref \o Digits(MaxId + 1) \o <<10>>)
      \* "trailer\n<< /Size <max_id + 1> /Root 1 0 R >>\n"
      /\ Contains(file, Startxref(file), Len(file),
                  <<116, 114, 97, 105, 108, 101, 114, 10, 60, 60, 32, 47, 83,
                  105, 122, 101, 32>>
                  \o Digits(MaxId + 1)
                  \o <<32, 47, 82, 111, 111, 116, 32, 49, 32, 48, 32, 82, 32, 62,
                     62, 10>>)
      \* the objects 1..4+2n stand one after the other, in the order of their
      \* IDs, from the header on, and nothing else stands between them
      /\ XrefOffset(file, 1) = 15
      /\ \A i \in 1..MaxId :
           /\ MatchAt(file, XrefOffset(file, i), Digits(i) \o TokObj)
           /\ XrefOffset(file, i) < ObjectEnd(file, i)
           /\ MatchAt(file, ObjectEnd(file, i) - Len(TokEndobj), TokEndobj)
           /\ i \notin { 6 + 2 * (k - 1) : k \in 1..NumPages } =>
                ~Contains(file, XrefOffset(file, i),
                          ObjectEnd(file, i) - Len(TokEndobj), TokEndobj)
      \* "/Type /Catalog /Pages 2 0 R"
      /\ ObjectHas(file, 1, <<47, 84, 121, 112, 101, 32, 47, 67, 97, 116, 97, 108, 111,
                            103, 32, 47, 80, 97, 103, 101, 115, 32, 50, 32, 48, 32, 82>>)
      \* "/Type /Pages /Count <n> /Kids [<kids>]"
      /\ ObjectHas(file, 2, <<47, 84, 121, 112, 101, 32, 47, 80, 97, 103, 101, 115, 32,
                            47, 67, 111, 117, 110, 116, 32>>
                            \o Digits(NumPages)
                            \o <<32, 47, 75, 105, 100, 115, 32, 91>>
                            \o KidsList(1, NumPages) \o <<93>>)
      \* "/Type /Font" and the two base fonts
      /\ ObjectHas(file, 3, <<47, 84, 121, 112, 101, 32, 47, 70, 111, 110, 116, 32, 47,
                            83, 117, 98, 116, 121, 112, 101, 32, 47, 84, 121, 112, 101,
                            49, 32, 47, 66, 97, 115, 101, 70, 111, 110, 116, 32, 47,
                            72, 101, 108, 118, 101, 116, 105, 99, 97, 32, 62, 62>>)
      /\ ObjectHas(file, 4, <<47, 84, 121, 112, 101, 32, 47, 70, 111, 110, 116, 32, 47,
                            83, 117, 98, 116, 121, 112, 101, 32, 47, 84, 121, 112, 101,
                            49, 32, 47, 66, 97, 115, 101, 70, 111, 110, 116, 32, 47,
                            72, 101, 108, 118, 101, 116, 105, 99, 97, 45, 66, 111, 108,
                            100, 32, 62, 62>>)
      /\ \A k \in 1..NumPages :
           LET page_id == 5 + 2 * (k - 1)
               content_id == 6 + 2 * (k - 1)
           IN  \* "/Type /Page /Parent 2 0 R "
               /\ ObjectHas(file, page_id,
                            <<47, 84, 121, 112, 101, 32, 47, 80, 97, 103, 101, 32, 47,
                            80, 97, 114, 101, 110, 116, 32, 50, 32, 48, 32, 82, 32>>)
               \* "/Font << /F1 3 0 R /F2 4 0 R >>"
               /\ ObjectHas(file, page_id,
                            <<47, 70, 111, 110, 116, 32, 60, 60, 32, 47, 70, 49, 32, 51,
                            32, 48, 32, 82, 32, 47, 70, 50, 32, 52, 32, 48, 32, 82, 32,
                            62, 62>>)
               \* "/Contents <content_id> 0 R >>"
               /\ ObjectHas(file, page_id,
                            <<47, 67, 111, 110, 116, 101, 110, 116, 115, 32>>
                            \o Digits(content_id) \o <<32, 48, 32, 82, 32, 62, 62>>)
               \* "stream\n", the page's stream, "endstream"
               /\ ObjectHas(file, content_id,
                            <<115, 116, 114, 101, 97, 109, 10>>
                            \o [i \in 1..Len(pdf.page_streams[k]) |->
                                  Latin1Byte(pdf.page_streams[k][i])]
                            \o <<101, 110, 100, 115, 116, 114, 101, 97, 109>>)

\* three pages of three different streams were written
C5_ObjectIdsWitness ==
    /\ pc = "written"
    /\ NumPages = 3
    /\ Cardinality({ pdf.page_streams[k] : k \in 1..3 }) = 3
    /\ XrefOffset(file, 10) > XrefOffset(file, 9)

=============================================================================
